---------------------------- MODULE Spec2Model ----------------------------
(***************************************************************************)
(* Model of blockchain_ticket_storage.py: the store path (frame, chunks,   *)
(* carrier transactions, index transaction) and the retrieve path of the   *)
(* Pastel blockchain ticket storage, against a node that holds the wallet  *)
(* and the chain.                                                          *)
(*                                                                         *)
(* Bytes are the integers 0..255 and a byte string is a sequence of them.  *)
(* Amounts are integers in units of 10^-7 PSL (fee_per_kb / 1000), so that  *)
(* both fees of the source are whole numbers.                              *)
(***************************************************************************)
EXTENDS Integers, Sequences, FiniteSets, TLC

(***************************************************************************)
(* Bounds of the model.                                                    *)
(***************************************************************************)
\* Payload lengths are the multiples 0..MaxPayloadSteps of PayloadStep.
MaxPayloadSteps == 2
PayloadStep == 3250
\* The wallet starts with 0..MaxUtxos eligible unspent outputs.
MaxUtxos == 4
\* At most MaxFaults node faults (failed signings, rejected broadcasts,
\* rpc errors) are injected into one store operation.
MaxFaults == 1
\* MaxCallers tasks call the RPC client, MaxCalls calls in all.
MaxCallers == 1
MaxCalls == 3
\* At most MaxRpcWaiting calls wait for a permit of the client at a time.
MaxRpcWaiting == 2
\* At most MaxSubmissions chunk submissions and MaxRetrievals retrievals are
\* under way or waiting at a time.
MaxSubmissions == 21
MaxRetrievals == 21
\* MaxSubmitters store operations submit chunks against one wallet, each
\* MaxRounds chunks.
\* The largest argument of varint.
MaxVarint == 65535
\* The unspent outputs of the long wallets that are not eligible by their flags,
\* those at an address that is not the wallet's, and the eligible ones.
MaxSkipped == 2
MaxForeign == 2
MaxEligible == 101
\* The amount of each output of a long wallet of small outputs: 0.0021743 PSL.
DustAmount == 21743

MaxSubmitters == 2
MaxRounds == 2

(***************************************************************************)
(* Constants of the program.                                               *)
(***************************************************************************)
OP_1 == 81
OP_CHECKMULTISIG == 174
OP_DUP == 118
OP_HASH160 == 169
OP_EQUALVERIFY == 136
OP_CHECKSIG == 172
OP_PUSHDATA1 == 76
OP_PUSHDATA2 == 77
OP_PUSHDATA4 == 78
max_chunk_size == 3000
FakePubkeyLen == 33
DigestLen == 32
TxidLen == 64
CarrierSkip == 35

\* None where the program holds a byte string or None: no byte string holds -1.
Null == <<-1>>
\* No exception.
NoExc == "none"

Min(a, b) == IF a <= b THEN a ELSE b

\* Python's s[a:b] for 0 <= a, 0 <= b.
Slice(s, a, b) == SubSeq(s, a + 1, Min(b, Len(s)))

\* Python's s[a:] for 0 <= a.
SliceFrom(s, a) == SubSeq(s, a + 1, Len(s))

\* n.to_bytes(2, 'big'), for 0 <= n < 65536.
to_bytes2_big(n) == <<n \div 256, n % 256>>

\* int.from_bytes(b, 'big') of a byte string of at most two bytes.
from_bytes_big(b) ==
    IF Len(b) = 0 THEN 0
    ELSE IF Len(b) = 1 THEN b[1]
    ELSE b[1] * 256 + b[2]

\* struct.pack('<H', n) and struct.pack('<I', n).
pack_le2(n) == <<n % 256, (n \div 256) % 256>>
pack_le4(n) ==
    <<n % 256, (n \div 256) % 256, (n \div 65536) % 256, (n \div 16777216) % 256>>

RECURSIVE Concat(_)
\* b''.join(parts)
Concat(parts) ==
    IF Len(parts) = 0 THEN <<>>
    ELSE parts[1] \o Concat(Tail(parts))

\* The digests and checksums of the model are computed modulo 2^24.
HashModulus == 256 * 256 * 256

RECURSIVE WeightedSum(_, _, _)
\* Sum of (i + 1) * s[i] over lo..hi modulo HashModulus, by halving (the depth
\* stays logarithmic).
WeightedSum(s, lo, hi) ==
    IF lo > hi THEN 0
    ELSE IF lo = hi THEN (lo + 1) * s[lo]
    ELSE LET mid == (lo + hi) \div 2
         IN  (WeightedSum(s, lo, mid) + WeightedSum(s, mid + 1, hi)) % HashModulus

RECURSIVE ByteSum(_, _, _)
ByteSum(s, lo, hi) ==
    IF lo > hi THEN 0
    ELSE IF lo = hi THEN s[lo]
    ELSE LET mid == (lo + hi) \div 2
         IN  ByteSum(s, lo, mid) + ByteSum(s, mid + 1, hi)

(***************************************************************************)
(* hashlib.sha3_256(data).digest(): a 32-byte digest of the bytes and      *)
(* their positions.  The digest of the library is modelled by a position-  *)
(* weighted sum spread over 32 bytes.                                      *)
(***************************************************************************)
get_raw_sha256_hash(input_data) ==
    LET h == (WeightedSum(input_data, 1, Len(input_data)) + 7 * Len(input_data) + 1)
                 % HashModulus
    IN  [j \in 1..DigestLen |-> (pack_le4(h)[((j - 1) % 4) + 1] + 37 * (j - 1)) % 256]

(***************************************************************************)
(* The zstd frame.  The library is modelled by the frame it writes for     *)
(* incompressible input with write_content_size and write_checksum: magic  *)
(* number, frame header descriptor, 4-byte content size, one raw block     *)
(* (3-byte header), 4-byte content checksum.                               *)
(***************************************************************************)
ZstdMagic == <<40, 181, 47, 253>>
ZstdFrameHeaderDescriptor == <<164>>
\* Magic number, descriptor, content size, block header and checksum.
ZstdOverhead == Len(ZstdMagic) + 1 + 4 + 3 + 4

\* The content checksum of the frame (4 bytes).
ZstdChecksum(data) ==
    LET c == (ByteSum(data, 1, Len(data)) + Len(data)) % 256
    IN  <<(c + 3) % 256, (c + 2) % 256, (c + 1) % 256, c>>

\* The 3-byte header of a last, raw block of n bytes.
ZstdBlockHeader(n) == <<(8 * n + 1) % 256, ((8 * n + 1) \div 256) % 256, ((8 * n + 1) \div 65536) % 256>>

compress_data(input_data) ==
    ZstdMagic \o ZstdFrameHeaderDescriptor \o pack_le4(Len(input_data))
        \o ZstdBlockHeader(Len(input_data)) \o input_data \o ZstdChecksum(input_data)

\* Whether zstd.decompress accepts the frame (it raises ZstdError otherwise).
ZstdValid(compressed_data) ==
    /\ Len(compressed_data) >= ZstdOverhead
    /\ LET n == Len(compressed_data) - ZstdOverhead
           content == SubSeq(compressed_data, 13, 12 + n)
       IN  /\ SubSeq(compressed_data, 1, 4) = ZstdMagic
           /\ <<compressed_data[5]>> = ZstdFrameHeaderDescriptor
           /\ SubSeq(compressed_data, 6, 9) = pack_le4(n)
           /\ SubSeq(compressed_data, 10, 12) = ZstdBlockHeader(n)
           /\ SubSeq(compressed_data, 13 + n, 16 + n) = ZstdChecksum(content)

decompress_data(compressed_data) ==
    SubSeq(compressed_data, 13, Len(compressed_data) - 4)

(***************************************************************************)
(* Script primitives.                                                      *)
(***************************************************************************)
pushdata(data) ==
    IF Len(data) < 76 THEN <<Len(data)>> \o data
    ELSE IF Len(data) < 256 THEN <<OP_PUSHDATA1, Len(data)>> \o data
    ELSE IF Len(data) < 65536 THEN <<OP_PUSHDATA2>> \o pack_le2(Len(data)) \o data
    ELSE <<OP_PUSHDATA4>> \o pack_le4(Len(data)) \o data

build_p2pkh_output_script(pubkey_hash) ==
    <<OP_DUP, OP_HASH160, Len(pubkey_hash)>> \o pubkey_hash \o <<OP_EQUALVERIFY, OP_CHECKSIG>>

\* The script of the data output of store_data_chunk and store_chunk_txids.
CarrierScript(fake_pubkey, data) ==
    <<OP_1, Len(fake_pubkey)>> \o fake_pubkey \o <<OP_1, OP_CHECKMULTISIG>> \o pushdata(data)

(***************************************************************************)
(* Frame and chunks.                                                       *)
(***************************************************************************)
\* calculate_chunks with every slice one byte short: data[i:i+chunk_size-1].
calculate_chunks_short_slices(data, max_size) ==
    LET num_chunks == (Len(data) + max_size - 1) \div max_size
        chunk_size == (Len(data) + num_chunks - 1) \div num_chunks
        count == (Len(data) + chunk_size - 1) \div chunk_size
    IN  [k \in 1..count |-> Slice(data, (k - 1) * chunk_size, k * chunk_size - 1)]

calculate_chunks(data, max_size) ==
    LET num_chunks == (Len(data) + max_size - 1) \div max_size
        chunk_size == (Len(data) + num_chunks - 1) \div num_chunks
        count == (Len(data) + chunk_size - 1) \div chunk_size
    IN  [k \in 1..count |-> Slice(data, (k - 1) * chunk_size, k * chunk_size)]

\* header + compressed_data of store_data_in_blockchain.
data_with_header(input_data) ==
    LET compressed_data == compress_data(input_data)
    IN  to_bytes2_big(Len(input_data)) \o get_raw_sha256_hash(input_data)
            \o get_raw_sha256_hash(compressed_data) \o compressed_data

(***************************************************************************)
(* Transaction ids.  The node names the n-th transaction it accepts by a   *)
(* 64-character lowercase hex string; txid.encode() is its ASCII bytes.    *)
(***************************************************************************)
HexChar(d) == IF d < 10 THEN 48 + d ELSE 87 + d

TxidOf(n) ==
    [j \in 1..TxidLen |->
        IF j = TxidLen THEN HexChar(n % 16)
        ELSE IF j = TxidLen - 1 THEN HexChar((n \div 16) % 16)
        ELSE HexChar((7 * j) % 16)]

(***************************************************************************)
(* The wallet of the node: listunspent and validateaddress.                *)
(***************************************************************************)
burn_address == "44oUgmZSL997veFEQDq569wv5tsT6KXf9QY7"
number_of_utxos_to_review == 100
fee_per_kb == 1000
\* The amount of every eligible unspent output of the wallet: 0.5 PSL.
UtxoAmount == 5000000
\* Bytes the node adds to each input when it signs it (the scriptSig).
ScriptSigLen == 107

\* validateaddress(address)['ismine']
ismine(address) == address = "mine"

Utxo(id, address, spendable, generated, confirmations) ==
    [txid |-> id, vout |-> 0, amount |-> UtxoAmount, address |-> address,
     spendable |-> spendable, generated |-> generated, confirmations |-> confirmations]

\* A wallet with n eligible outputs, listed by descending confirmations after
\* four outputs that are not eligible.
Wallet(n) ==
    <<Utxo(101, burn_address, TRUE, FALSE, 1), Utxo(102, "mine", FALSE, FALSE, 2),
      Utxo(103, "mine", TRUE, TRUE, 3), Utxo(104, "foreign", TRUE, FALSE, 4)>>
        \o [k \in 1..n |-> Utxo(k, "mine", TRUE, FALSE, 10 + n - k)]

\* The first test of the loop of select_txins: the entry is skipped.
SkippedByFlags(tx) == ~tx.spendable \/ tx.address = burn_address \/ tx.generated

\* The entry passes both tests of the loop and is appended to valid_unspent.
Reviewed(tx) == ~SkippedByFlags(tx) /\ ismine(tx.address)

\* The first loop of select_txins: the number of entries of the list the loop
\* has read when it ends.  It breaks at the entry that brings reviewed_utxos to
\* number_of_utxos_to_review, and reads the whole list if there is none.
ReviewStop(unspent_transactions) ==
    LET reviewed_utxos(k) ==
            Cardinality({j \in 1..k : Reviewed(unspent_transactions[j])})
        breaks == {k \in 1..Len(unspent_transactions) :
                      /\ Reviewed(unspent_transactions[k])
                      /\ reviewed_utxos(k) >= number_of_utxos_to_review}
    IN  IF breaks = {} THEN Len(unspent_transactions)
        ELSE CHOOSE k \in breaks : \A j \in breaks : k <= j

\* valid_unspent after the first loop of select_txins: the entries it read that
\* passed both tests, in the order of the list.
ReviewUnspent(unspent_transactions) ==
    SelectSeq(SubSeq(unspent_transactions, 1, ReviewStop(unspent_transactions)), Reviewed)

\* valid_unspent.sort(key=lambda x: x['confirmations']), a stable sort: an entry
\* comes after those with fewer confirmations and after those with as many that
\* stood before it.
SortByConfirmations(list) ==
    LET rank == [i \in 1..Len(list) |->
                    1 + Cardinality({j \in 1..Len(list) :
                            \/ list[j].confirmations < list[i].confirmations
                            \/ /\ list[j].confirmations = list[i].confirmations
                               /\ j < i})]
    IN  [r \in 1..Len(list) |-> list[CHOOSE i \in 1..Len(list) : rank[i] = r]]

RECURSIVE SumAmountsRange(_, _, _)
\* The sum of the amounts of entries lo..hi, by halving.
SumAmountsRange(list, lo, hi) ==
    IF lo > hi THEN 0
    ELSE IF lo = hi THEN list[lo].amount
    ELSE LET mid == (lo + hi) \div 2
         IN  SumAmountsRange(list, lo, mid) + SumAmountsRange(list, mid + 1, hi)

SumAmounts(list) == SumAmountsRange(list, 1, Len(list))

\* The second loop of select_txins: it appends the entries in order, adding up
\* their amounts, and breaks after the first one that brings the total to value.
SelectGreedy(valid_unspent, value) ==
    LET breaks == {k \in 1..Len(valid_unspent) :
                      SumAmountsRange(valid_unspent, 1, k) >= value}
        count == IF breaks = {} THEN Len(valid_unspent)
                 ELSE CHOOSE k \in breaks : \A j \in breaks : k <= j
    IN  [txins |-> SubSeq(valid_unspent, 1, count),
         total_amount |-> SumAmountsRange(valid_unspent, 1, count)]

\* select_txins: ok is FALSE where the source raises Exception("Insufficient funds").
select_txins(unspent_transactions, value) ==
    LET valid_unspent == SortByConfirmations(ReviewUnspent(unspent_transactions))
        picked == SelectGreedy(valid_unspent, value)
    IN  [ok |-> picked.total_amount >= value, txins |-> picked.txins,
         total_amount |-> picked.total_amount]

\* The entries of the first loop of select_txins that reach
\* rpc_connection.validateaddress(tx['address']): one call each.
ValidatedEntries(unspent_transactions) ==
    {k \in 1..ReviewStop(unspent_transactions) :
        ~SkippedByFlags(unspent_transactions[k])}

\* No run of select_txins made.
NoSelection ==
    [called |-> FALSE, value |-> 0, ok |-> FALSE, txins |-> <<>>, total_amount |-> 0,
     inspected |-> 0, validateaddress_calls |-> 0]

\* One run of select_txins(value) over listunspent: what it returns or raises,
\* the entries its scan read and the validateaddress calls it made.
select_txins_run(unspent_transactions, value) ==
    LET picked == select_txins(unspent_transactions, value)
    IN  [called |-> TRUE, value |-> value, ok |-> picked.ok, txins |-> picked.txins,
         total_amount |-> picked.total_amount,
         inspected |-> ReviewStop(unspent_transactions),
         validateaddress_calls |-> Cardinality(ValidatedEntries(unspent_transactions))]

(***************************************************************************)
(* Serialized sizes: the length of packtx(txins, txouts) in bytes.  The    *)
(* scriptSig is empty in what the program serializes; the node adds        *)
(* ScriptSigLen bytes to each input when it signs.                         *)
(***************************************************************************)
\* len(varint(n)), for n < 0xffff (the source asserts False beyond).
varint_len(n) == IF n < 253 THEN 1 ELSE 3

\* No call of varint made.
NoVarint == [called |-> FALSE, exc |-> NoExc, bytes |-> <<>>]

\* varint(n) for n >= 0: the bytes returned, or the AssertionError of
\* `assert False`.
varint(n) ==
    IF n < 253 THEN [called |-> TRUE, exc |-> NoExc, bytes |-> <<n>>]
    ELSE IF n < 65535
        THEN [called |-> TRUE, exc |-> NoExc, bytes |-> <<253>> \o pack_le2(n)]
    ELSE [called |-> TRUE, exc |-> "AssertionError", bytes |-> <<>>]

RECURSIVE SumScriptLens(_)
SumScriptLens(scripts) ==
    IF Len(scripts) = 0 THEN 0
    ELSE 8 + varint_len(Len(scripts[1])) + Len(scripts[1]) + SumScriptLens(Tail(scripts))

\* len(packtx(txins, txouts)) for the scripts of txouts.
packtx_len(txins, scripts) ==
    4 + varint_len(Len(txins)) + Len(txins) * (32 + 4 + 1 + 4)
      + varint_len(Len(scripts)) + SumScriptLens(scripts) + 4

\* len(signed_tx['hex']) / 2 of signrawtransaction.
signed_tx_size(txins, scripts) == packtx_len(txins, scripts) + Len(txins) * ScriptSigLen

\* calculate_transaction_fee, in units of fee_per_kb / 1000.
calculate_transaction_fee(tx_size) == (tx_size * fee_per_kb) \div 1000

(***************************************************************************)
(* Node faults.  The answer of the node to one submission is either        *)
(* faultless, or one of: a first signing that reports errors or is not     *)
(* complete, a second signing that is not complete, sendrawtransaction     *)
(* failing with an rpc-error code, or sendrawtransaction exhausting the    *)
(* retries of the client (the call then returns None).                     *)
(***************************************************************************)
NoFault == [kind |-> "none", code |-> 0]
SendErrorCodes == {-25, -26, -22}
Faults ==
    {[kind |-> k, code |-> 0] :
        k \in {"sign_errors", "sign_incomplete", "resign_incomplete", "send_exhausted"}}
    \cup {[kind |-> "send_error", code |-> c] : c \in SendErrorCodes}

\* os.urandom(33): the 33 bytes of the n-th draw of a run whose entropy is seed;
\* successive draws differ.
urandom(seed, n) == [j \in 1..FakePubkeyLen |-> (seed + 89 * n + j) % 256]

\* getnewaddress of the node, for its n-th transaction, as bytes.
getnewaddress(n) == [j \in 1..35 |-> IF j = 35 THEN 48 + (n % 10) ELSE 80]

(***************************************************************************)
(* create_and_send_transaction.  txouts are <<value, script>> pairs, the   *)
(* change last.  The result says what the function returns (ret "tuple"    *)
(* with txid and fee, ret "none") or raises (ret "raise"), whether the     *)
(* node accepted the broadcast, and the change value that was signed.      *)
(***************************************************************************)
create_and_send_transaction(txins, txouts, fault, next_txid) ==
    LET scripts == [k \in 1..Len(txouts) |-> txouts[k][2]]
        fee == calculate_transaction_fee(signed_tx_size(txins, scripts))
        base == [ret |-> "none", exc |-> NoExc, txid |-> Null, fee |-> 0,
                 change |-> txouts[Len(txouts)][1], accepted |-> FALSE, sent |-> FALSE]
        resigned == [base EXCEPT !.fee = fee, !.change = txouts[Len(txouts)][1] - fee]
    IN  IF fault.kind = "sign_errors" THEN base
        ELSE IF fault.kind = "sign_incomplete" THEN base
        ELSE IF fault.kind = "resign_incomplete"
            THEN [resigned EXCEPT !.ret = "raise", !.exc = "AssertionError"]
        ELSE IF fault.kind = "send_error"
            THEN IF fault.code = -25 \/ fault.code = -26
                    THEN [resigned EXCEPT !.sent = TRUE]
                 ELSE [resigned EXCEPT !.ret = "raise", !.exc = "JSONRPCException",
                                       !.sent = TRUE]
        ELSE IF fault.kind = "send_exhausted"
            THEN [resigned EXCEPT !.ret = "tuple", !.sent = TRUE]
        ELSE [resigned EXCEPT !.ret = "tuple", !.txid = next_txid,
                              !.accepted = TRUE, !.sent = TRUE]

(***************************************************************************)
(* The body of store_data_chunk and of store_chunk_txids after the data    *)
(* has been laid out: the data output, the estimated fee, the selection of *)
(* inputs, the change output, the signing and the broadcast.               *)
(***************************************************************************)
SubmitCarrier(unspent_transactions, data, fake_pubkey, fault, n) ==
    LET script == CarrierScript(fake_pubkey, data)
        estimated_fee == Len(data) * fee_per_kb
        picked == select_txins(unspent_transactions, estimated_fee)
        change == picked.total_amount - estimated_fee
        script_pubkey == build_p2pkh_output_script(get_raw_sha256_hash(getnewaddress(n)))
        txouts == <<<<0, script>>, <<change, script_pubkey>>>>
        result == create_and_send_transaction(picked.txins, txouts, fault, TxidOf(n))
        base == [kind |-> "none", exc |-> NoExc, txid |-> Null, script |-> script,
                 change_script |-> script_pubkey, txins |-> <<>>, total_amount |-> 0,
                 estimated_fee |-> estimated_fee, fee |-> 0, change |-> 0,
                 accepted |-> FALSE, sent |-> FALSE, fault |-> fault]
    IN  IF ~picked.ok
            THEN [base EXCEPT !.kind = "raise", !.exc = "InsufficientFunds",
                              !.fault = NoFault]
        ELSE LET done == [base EXCEPT !.txins = picked.txins,
                                      !.total_amount = picked.total_amount,
                                      !.fee = result.fee, !.change = result.change,
                                      !.accepted = result.accepted, !.sent = result.sent]
             IN  IF result.ret = "raise"
                    THEN [done EXCEPT !.kind = "raise", !.exc = result.exc]
                 ELSE IF result.ret = "tuple"
                    THEN [done EXCEPT !.kind = IF result.txid = Null THEN "none" ELSE "txid",
                                      !.txid = result.txid]
                 ELSE done

\* store_data_chunk(chunk), chunk being the 2-byte index and the slice.
store_data_chunk(unspent_transactions, chunk, fake_pubkey, fault, n) ==
    SubmitCarrier(unspent_transactions, chunk, fake_pubkey, fault, n)

\* store_data_chunks: the chunk handed to store_data_chunk for chunk i (from 0).
chunk_with_index(chunks, i) == to_bytes2_big(i) \o chunks[i + 1]

\* txids_data with the txids joined last first.
txids_data_reversed(chunk_txids) ==
    Concat([k \in 1..Len(chunk_txids) |-> chunk_txids[Len(chunk_txids) + 1 - k]])

\* store_chunk_txids: txids_data, for txids that are all strings.
txids_data(chunk_txids) == Concat(chunk_txids)

store_chunk_txids(unspent_transactions, chunk_txids, fake_pubkey, fault, n) ==
    IF \E k \in 1..Len(chunk_txids) : chunk_txids[k] = Null
        THEN [kind |-> "raise", exc |-> "AttributeError", txid |-> Null, script |-> <<>>,
              change_script |-> <<>>, txins |-> <<>>, total_amount |-> 0,
              estimated_fee |-> 0, fee |-> 0, change |-> 0,
              accepted |-> FALSE, sent |-> FALSE, fault |-> NoFault]
    ELSE SubmitCarrier(unspent_transactions, txids_data(chunk_txids), fake_pubkey, fault, n)

(***************************************************************************)
(* The retrieve path.  The chain is the sequence of the transactions the   *)
(* node accepted; transaction n is named TxidOf(n) and decoderawtransaction*)
(* lists the scripts of its outputs.                                       *)
(***************************************************************************)
\* The place in the chain of the transaction named by the bytes t, 0 if none:
\* getrawtransaction raises an rpc-error for it then.
ChainIndexOf(chain_txs, t) ==
    IF \E n \in 1..Len(chain_txs) : TxidOf(n) = t
        THEN CHOOSE n \in 1..Len(chain_txs) : TxidOf(n) = t
    ELSE 0

\* script[0] == opcodes.OP_1 and script[-1] == opcodes.OP_CHECKMULTISIG
IsCarrierScript(script) ==
    script[1] = OP_1 /\ script[Len(script)] = OP_CHECKMULTISIG

\* data = script[35:]
CarrierData(script) == SliceFrom(script, CarrierSkip)

\* The first output of vout whose script passes the test, 0 if none.
FirstCarrierOutput(vout) ==
    IF \E k \in 1..Len(vout) : IsCarrierScript(vout[k])
        THEN CHOOSE k \in 1..Len(vout) :
                IsCarrierScript(vout[k]) /\ \A j \in 1..(k - 1) : ~IsCarrierScript(vout[j])
    ELSE 0

\* The push header that CarrierScript writes before the data is skipped: the
\* data of the first output that carries OP_1 ... OP_1 OP_CHECKMULTISIG where
\* CarrierScript writes them.
carrier_data_after_push(vout) ==
    LET Carries(script) ==
            /\ Len(script) > CarrierSkip + 3
            /\ script[1] = OP_1
            /\ script[CarrierSkip + 2] = OP_CHECKMULTISIG
        Body(script) ==
            LET op == script[CarrierSkip + 3]
            IN  IF op < OP_PUSHDATA1 THEN SliceFrom(script, CarrierSkip + 3)
                ELSE IF op = OP_PUSHDATA1 THEN SliceFrom(script, CarrierSkip + 4)
                ELSE IF op = OP_PUSHDATA2 THEN SliceFrom(script, CarrierSkip + 5)
                ELSE SliceFrom(script, CarrierSkip + 7)
    IN  IF \E k \in 1..Len(vout) : Carries(vout[k])
            THEN Body(vout[CHOOSE k \in 1..Len(vout) :
                              Carries(vout[k]) /\ \A j \in 1..(k - 1) : ~Carries(vout[j])])
        ELSE Null

\* The loop over decoded_transaction['vout'] of retrieve_data_from_blockchain and
\* of retrieve_chunk: the data of the first output whose script passes the test,
\* None if there is none.
carrier_data(vout) ==
    LET k == FirstCarrierOutput(vout)
    IN  IF k = 0 THEN Null ELSE CarrierData(vout[k])

\* retrieve_chunk(txid), for a transaction of the chain: the data or None.
retrieve_chunk(chain_txs, n) == carrier_data(chain_txs[n].vout)

\* bytes.decode(): the model takes the ASCII strings to decode and every other
\* byte string to raise (a non-ASCII string names no transaction either).
Decodes(b) == \A j \in 1..Len(b) : b[j] < 128

\* The key of the sort: int.from_bytes(x[:2], 'big').
ChunkSortKey(x) == from_bytes_big(Slice(x, 0, 2))

RECURSIVE InsertByKey(_, _)
InsertByKey(sorted, x) ==
    IF Len(sorted) = 0 THEN <<x>>
    ELSE IF ChunkSortKey(sorted[Len(sorted)]) <= ChunkSortKey(x) THEN Append(sorted, x)
    ELSE Append(InsertByKey(SubSeq(sorted, 1, Len(sorted) - 1), x), sorted[Len(sorted)])

RECURSIVE sorted_chunks(_)
\* sorted(data_chunks, key=...), a stable sort.
sorted_chunks(data_chunks) ==
    IF Len(data_chunks) = 0 THEN <<>>
    ELSE InsertByKey(sorted_chunks(SubSeq(data_chunks, 1, Len(data_chunks) - 1)),
                     data_chunks[Len(data_chunks)])

\* b''.join(chunk[2:] for chunk in sorted_chunks), for chunks that are all bytes.
combine_chunks(data_chunks) ==
    LET sorted == sorted_chunks(data_chunks)
    IN  Concat([k \in 1..Len(sorted) |-> SliceFrom(sorted[k], 2)])

\* The try block of retrieve_data_from_blockchain on data longer than 64 bytes:
\* ok is FALSE where it raises (a slice that does not decode, a transaction the
\* node does not know, a chunk that is None).
TryCombine(chain_txs, data) ==
    LET count == (Len(data) + TxidLen - 1) \div TxidLen
        chunk_txids == [k \in 1..count |-> Slice(data, (k - 1) * TxidLen, k * TxidLen)]
        known == \A k \in 1..count :
                    Decodes(chunk_txids[k]) /\ ChainIndexOf(chain_txs, chunk_txids[k]) # 0
        data_chunks == [k \in 1..count |->
                           retrieve_chunk(chain_txs, ChainIndexOf(chain_txs, chunk_txids[k]))]
    IN  IF ~known \/ \E k \in 1..count : data_chunks[k] = Null
            THEN [ok |-> FALSE, combined_data |-> <<>>]
        ELSE [ok |-> TRUE, combined_data |-> combine_chunks(data_chunks)]

\* The hash checks and the decompression of retrieve_data_from_blockchain.
VerifyAndDecompress(combined_data) ==
    LET uncompressed_data_hash == Slice(combined_data, 2, 34)
        compressed_data_hash == Slice(combined_data, 34, 66)
        compressed_data == SliceFrom(combined_data, Min(66, Len(combined_data)))
    IN  IF get_raw_sha256_hash(compressed_data) # compressed_data_hash
            THEN [kind |-> "null", data |-> <<>>]
        ELSE IF ~ZstdValid(compressed_data)
            THEN [kind |-> "raise", data |-> <<>>]
        ELSE IF get_raw_sha256_hash(decompress_data(compressed_data)) # uncompressed_data_hash
            THEN [kind |-> "null", data |-> <<>>]
        ELSE [kind |-> "data", data |-> decompress_data(compressed_data)]

\* retrieve_data_from_blockchain(txid): kind "data" with the payload, kind "null"
\* for None, kind "raise" for an exception.
retrieve_data_from_blockchain(chain_txs, txid) ==
    LET n == ChainIndexOf(chain_txs, txid)
    IN  IF n = 0 THEN [kind |-> "raise", data |-> <<>>]
        ELSE LET data == carrier_data(chain_txs[n].vout)
                 tried == TryCombine(chain_txs, data)
                 combined_data == IF Len(data) > TxidLen /\ tried.ok
                                     THEN tried.combined_data
                                  ELSE data
             IN  IF data = Null THEN [kind |-> "null", data |-> <<>>]
                 ELSE VerifyAndDecompress(combined_data)

(***************************************************************************)
(* AsyncAuthServiceProxy, the JSON-RPC client.  Times are integers in      *)
(* microseconds, so that the factors 1.5 and 0.8 of the adaptive timeout   *)
(* stay whole numbers over the runs of the model.                          *)
(***************************************************************************)
Second == 1000 * 1000

\* The class attribute max_concurrent_requests, the value of _semaphore.
AsyncAuthServiceProxy_max_concurrent_requests == 1000
\* The defaults of __init__, which every handle of __getattr__ is built with.
reconnect_timeout == 25
max_retries == 3
max_backoff_time == 120
circuit_breaker_timeout == 60
circuit_breaker_failure_threshold == 5
\* The cap and the floor of adapt_circuit_breaker_timeout.
adapt_timeout_cap == 300
adapt_timeout_floor == 60

Max(a, b) == IF a >= b THEN a ELSE b

\* AsyncAuthServiceProxy(service_url, service_name): the fields of a new
\* object that the model follows.
AsyncAuthServiceProxy(service_name) ==
    [service_name |-> service_name,
     id_count |-> 0,
     circuit_breaker_open |-> FALSE,
     circuit_breaker_timeout |-> circuit_breaker_timeout * Second,
     circuit_breaker_failure_count |-> 0]

\* __getattr__(self, name): a new object for every attribute access.
getattr(self, name) == AsyncAuthServiceProxy(name)

\* rpc_connection, the object of the module that every call site starts from.
rpc_connection == AsyncAuthServiceProxy("None")

RECURSIVE SeqSum(_)
\* The sum of a sequence of numbers.
SeqSum(seq) == IF Len(seq) = 0 THEN 0 ELSE seq[1] + SeqSum(Tail(seq))

\* A semaphore that hands out a permit at value 0.
semaphore_free_at_zero(value) == value >= 0

\* async with self._semaphore: the permit is taken when the value is positive,
\* else the caller waits.
semaphore_free(value) == value > 0

\* sleep_time without the cap of max_backoff_time.
sleep_time_uncapped(i, jitter) == reconnect_timeout * Second * (2 ^ i) + jitter

\* sleep_time before attempt i > 0; jitter is random.uniform(0, reconnect_timeout).
sleep_time(i, jitter) ==
    Min(reconnect_timeout * Second * (2 ^ i) + jitter, max_backoff_time * Second)

\* The values of random.uniform(0, reconnect_timeout) the model draws.
Jitters == {0, reconnect_timeout * Second}

\* The values of elapsed_time the model draws: below half of every timeout,
\* between half of the initial timeout and the initial timeout, and above every
\* timeout.
ElapsedTimes == {Second, 45 * Second, 400 * Second}

\* adapt_circuit_breaker_timeout(self, elapsed_time)
adapt_circuit_breaker_timeout(self, elapsed_time) ==
    IF elapsed_time > self.circuit_breaker_timeout
        THEN [self EXCEPT !.circuit_breaker_timeout =
                Min((self.circuit_breaker_timeout * 3) \div 2, adapt_timeout_cap * Second)]
    ELSE IF 2 * elapsed_time < self.circuit_breaker_timeout
        THEN [self EXCEPT !.circuit_breaker_timeout =
                Max((self.circuit_breaker_timeout * 4) \div 5, adapt_timeout_floor * Second)]
    ELSE self

\* __call__ when client.post returned a response: the breaker is reset and the
\* timeout adapted.
post_responded(self, elapsed_time) ==
    adapt_circuit_breaker_timeout(
        [self EXCEPT !.circuit_breaker_failure_count = 0,
                     !.circuit_breaker_open = FALSE],
        elapsed_time)

\* __call__ when an attempt raised: the failure is counted and the breaker
\* opened at the threshold.
post_failed(self) ==
    LET counted == [self EXCEPT !.circuit_breaker_failure_count = @ + 1]
    IN  IF counted.circuit_breaker_failure_count >= circuit_breaker_failure_threshold
            THEN [counted EXCEPT !.circuit_breaker_open = TRUE,
                                 !.circuit_breaker_timeout = circuit_breaker_timeout * Second]
        ELSE counted

(***************************************************************************)
(* The state: the node (wallet and chain), one store operation, the        *)
(* retrieval of what it stored, and the history of the submissions.        *)
(***************************************************************************)
VARIABLES
    unspent,              \* listunspent of the node
    chain,                \* the transactions the node accepted, in order
    pc,                   \* "idle", "chunks", "index", "done"
    payload,              \* input_data of store_data_in_blockchain
    chunks,               \* chunks of store_data_in_blockchain
    chunk_storage_txids,  \* chunk_storage_txids of store_data_chunks
    store_result,         \* what store_data_in_blockchain returned or raised
    log,                  \* history: one entry per submission of the store
    faults,               \* the number of node faults injected so far
    tampered,             \* history: the byte of a chunk record changed on-chain
    retrieved,            \* what retrieve_data_from_blockchain returned or raised
    entropy,              \* the seed of os.urandom in this run
    rpc_semaphore,        \* the value of AsyncAuthServiceProxy._semaphore
    rpc_waiting,          \* the number of calls waiting for a permit of _semaphore
    rpc_in_flight,        \* the number of calls holding a permit of _semaphore
    proxy,                \* the AsyncAuthServiceProxy objects: 0 a handle its owner
                          \* keeps, c the handle of the current call of caller c
    calls,                \* the current call of each caller: its place and history
    calls_started,        \* the number of calls begun so far
    requests,             \* history: the JSON-RPC requests in issue order
    failed_attempts,      \* history: the attempts that failed since the last response,
                          \* counted up to the threshold of the breaker
    storage_task_semaphore,    \* the value of storage_task_semaphore
    transaction_semaphore,     \* the value of transaction_semaphore
    retrieval_task_semaphore,  \* the value of retrieval_task_semaphore
    submissions,          \* the number of chunk submissions at each place
    retrievals,           \* the number of retrievals at each place
    submitters,           \* the chunk submissions that select inputs: place and inputs
    broadcasts,           \* history: the inputs of the transactions sent to the node
    varint_n,             \* the argument of the varint call under study
    varint_out,           \* what that call returned or raised
    selection             \* one run of select_txins: its value, result and scan

\* The variables of the store and retrieve paths, of the RPC client, of the
\* gates, and of the single calls of varint and select_txins.
store_vars == <<unspent, chain, pc, payload, chunks, chunk_storage_txids, store_result,
                log, faults, tampered, retrieved, entropy>>
client_vars == <<rpc_semaphore, rpc_waiting, rpc_in_flight, proxy, calls, calls_started,
                 requests, failed_attempts>>
gate_vars == <<storage_task_semaphore, transaction_semaphore, retrieval_task_semaphore,
               submissions, retrievals, submitters, broadcasts>>
function_vars == <<varint_n, varint_out, selection>>

vars == <<unspent, chain, pc, payload, chunks, chunk_storage_txids, store_result, log,
          faults, tampered, retrieved, entropy, client_vars, gate_vars, function_vars>>

\* The payloads of the model: every byte is 0xAE, the byte the carrier test of the
\* retrieve path looks for at the end of a script, so that chunks ending with it
\* and chunks ending otherwise (by the checksum of the frame) both occur.
Payloads ==
    {[i \in 1..(k * PayloadStep) |-> OP_CHECKMULTISIG] : k \in 0..MaxPayloadSteps}

\* No retrieval has ended yet.
Pending == [kind |-> "pending", data |-> <<>>]

\* The gates of the module and the default of use_parallel.
max_storage_tasks_in_parallel == 20
max_retrieval_tasks_in_parallel == 20
max_concurrent_requests == 5
use_parallel == 0

Callers == 1..MaxCallers
Submitters == 1..MaxSubmitters

\* A caller that has no call under way and has made none.
IdleCall ==
    [pc |-> "idle", target |-> 0, id |-> 0, i |-> 0, posts |-> 0, responses |-> 0,
     backoffs |-> <<>>, breaker_slept |-> FALSE, breaker_due |-> FALSE,
     result |-> "pending"]

\* A store operation that has submitted nothing yet.
IdleSubmitter == [pc |-> "idle", txins |-> <<>>, rounds |-> 0, result |-> "pending"]

\* The client after the module is loaded: every permit free, rpc_connection
\* built, no call made.
InitClient ==
    /\ rpc_semaphore = AsyncAuthServiceProxy_max_concurrent_requests
    /\ rpc_waiting = 0
    /\ rpc_in_flight = 0
    /\ proxy = [h \in {0} \cup Callers |-> getattr(rpc_connection, "method")]
    /\ calls = [c \in Callers |-> IdleCall]
    /\ calls_started = 0
    /\ requests = <<>>
    /\ failed_attempts = 0

\* The gates after the module is loaded.
InitGates ==
    /\ storage_task_semaphore = max_storage_tasks_in_parallel
    /\ transaction_semaphore = max_concurrent_requests
    /\ retrieval_task_semaphore = max_retrieval_tasks_in_parallel
    /\ submissions = [waiting |-> 0, preparing |-> 0, sending |-> 0]
    /\ retrievals = 0
    /\ submitters = [s \in Submitters |-> IdleSubmitter]
    /\ broadcasts = <<>>

\* No call of varint or select_txins is under study.
InitFunctions ==
    /\ varint_n = 0
    /\ varint_out = NoVarint
    /\ selection = NoSelection

\* No store operation and no retrieval of the first part of the model is under
\* way, over the chain and the seed given.
InitStoreIdle ==
    /\ chain = <<>>
    /\ pc = "idle"
    /\ payload = <<>>
    /\ chunks = <<>>
    /\ chunk_storage_txids = <<>>
    /\ store_result = [kind |-> "pending", exc |-> NoExc, txid |-> Null]
    /\ log = <<>>
    /\ faults = 0
    /\ tampered = [kind |-> "none"]
    /\ retrieved = Pending
    /\ entropy = 0

Init ==
    /\ InitClient
    /\ InitGates
    /\ InitFunctions
    /\ unspent \in {Wallet(n) : n \in 0..MaxUtxos}
    /\ chain = <<>>
    /\ pc = "idle"
    /\ payload = <<>>
    /\ chunks = <<>>
    /\ chunk_storage_txids = <<>>
    /\ store_result = [kind |-> "pending", exc |-> NoExc, txid |-> Null]
    /\ log = <<>>
    /\ faults = 0
    /\ tampered = [kind |-> "none"]
    /\ retrieved = Pending
    /\ entropy \in {0, OP_CHECKMULTISIG}

\* The faults the node may answer the next submission with.
FaultChoices == {NoFault} \cup (IF faults < MaxFaults THEN Faults ELSE {})

\* listunspent without the outputs a broadcast transaction spent.
Spend(unspent_transactions, txins) ==
    LET Unspent(u) == \A k \in 1..Len(txins) : txins[k].txid # u.txid
    IN  SelectSeq(unspent_transactions, Unspent)

\* The node after the submission r: it holds the transaction iff it accepted it.
ChainAfter(r) ==
    IF r.accepted THEN Append(chain, [vout |-> <<r.script, r.change_script>>]) ELSE chain

UnspentAfter(r) == IF r.accepted THEN Spend(unspent, r.txins) ELSE unspent

\* store_data_in_blockchain up to the call of store_data_chunks.
StoreBegin ==
    /\ pc = "idle"
    /\ \E input_data \in Payloads :
        /\ payload' = input_data
        /\ chunks' = calculate_chunks(data_with_header(input_data), max_chunk_size)
    /\ pc' = "chunks"
    /\ UNCHANGED <<unspent, chain, chunk_storage_txids, store_result, log, faults,
                   tampered, retrieved, entropy>>
    /\ UNCHANGED <<client_vars, gate_vars, function_vars>>

\* store_data_in_blockchain when lockunspent raises an rpc-error.
StoreBeginRaises ==
    /\ pc = "idle"
    /\ faults < MaxFaults
    /\ faults' = faults + 1
    /\ pc' = "done"
    /\ store_result' = [kind |-> "raise", exc |-> "JSONRPCException", txid |-> Null]
    /\ UNCHANGED <<unspent, chain, payload, chunks, chunk_storage_txids, log,
                   tampered, retrieved, entropy>>
    /\ UNCHANGED <<client_vars, gate_vars, function_vars>>

\* One round of the loop of store_data_chunks: store_data_chunk of chunk i.
StoreChunk ==
    /\ pc = "chunks"
    /\ \E fault \in FaultChoices :
        LET i == Len(chunk_storage_txids)
            fake_pubkey == urandom(entropy, Len(log))
            chunk == chunk_with_index(chunks, i)
            r == store_data_chunk(unspent, chunk, fake_pubkey, fault, Len(chain) + 1)
        IN  /\ log' = Append(log, [kind |-> "chunk", index |-> i, out |-> r])
            /\ faults' = faults + (IF r.fault = NoFault THEN 0 ELSE 1)
            /\ chain' = ChainAfter(r)
            /\ unspent' = UnspentAfter(r)
            /\ IF r.kind = "raise"
                  THEN /\ pc' = "done"
                       /\ store_result' = [kind |-> "raise", exc |-> r.exc, txid |-> Null]
                       /\ UNCHANGED chunk_storage_txids
                  ELSE /\ chunk_storage_txids' = Append(chunk_storage_txids, r.txid)
                       /\ pc' = IF i + 1 = Len(chunks) THEN "index" ELSE "chunks"
                       /\ UNCHANGED store_result
    /\ UNCHANGED <<payload, chunks, tampered, retrieved, entropy>>
    /\ UNCHANGED <<client_vars, gate_vars, function_vars>>

\* store_chunk_txids(chunk_txids) and the return of store_data_in_blockchain.
StoreIndex ==
    /\ pc = "index"
    /\ \E fault \in FaultChoices :
        LET fake_pubkey == urandom(entropy, Len(log))
            r == store_chunk_txids(unspent, chunk_storage_txids, fake_pubkey, fault,
                                   Len(chain) + 1)
        IN  /\ log' = Append(log, [kind |-> "index", index |-> Len(chunk_storage_txids),
                                   out |-> r])
            /\ faults' = faults + (IF r.fault = NoFault THEN 0 ELSE 1)
            /\ chain' = ChainAfter(r)
            /\ unspent' = UnspentAfter(r)
            /\ store_result' =
                  IF r.kind = "raise" THEN [kind |-> "raise", exc |-> r.exc, txid |-> Null]
                  ELSE IF r.txid = Null THEN [kind |-> "null", exc |-> NoExc, txid |-> Null]
                  ELSE [kind |-> "txid", exc |-> NoExc, txid |-> r.txid]
    /\ pc' = "done"
    /\ UNCHANGED <<payload, chunks, chunk_storage_txids, tampered, retrieved, entropy>>
    /\ UNCHANGED <<client_vars, gate_vars, function_vars>>

\* The offsets into the body of a chunk record that the model changes: the two
\* bytes of the index, the first and the last byte of the chunk.
TamperOffsets(body) == {0, 1, 2, Len(body) - 1}

\* One byte of the body of one chunk record of the store is changed on-chain.
Tamper ==
    /\ pc = "done"
    /\ store_result.kind = "txid"
    /\ tampered.kind = "none"
    /\ retrieved.kind = "pending"
    /\ \E e \in 1..Len(log) :
        /\ log[e].kind = "chunk"
        /\ \E offset \in TamperOffsets(chunk_with_index(chunks, log[e].index)) :
            LET n == ChainIndexOf(chain, log[e].out.txid)
                script == chain[n].vout[1]
                at == Len(script) - Len(chunk_with_index(chunks, log[e].index)) + offset + 1
            IN  \E value \in {(script[at] + 1) % 256, OP_CHECKMULTISIG} \ {script[at]} :
                    /\ chain' = [chain EXCEPT ![n].vout[1][at] = value]
                    /\ tampered' = [kind |-> "byte", tx |-> n, chunk |-> log[e].index,
                                    offset |-> offset, value |-> value]
    /\ UNCHANGED <<unspent, pc, payload, chunks, chunk_storage_txids, store_result, log,
                   faults, retrieved, entropy>>
    /\ UNCHANGED <<client_vars, gate_vars, function_vars>>

\* retrieve_data_from_blockchain of the txid the store returned.
Retrieve ==
    /\ pc = "done"
    /\ store_result.kind = "txid"
    /\ retrieved.kind = "pending"
    /\ retrieved' = retrieve_data_from_blockchain(chain, store_result.txid)
    /\ UNCHANGED <<unspent, chain, pc, payload, chunks, chunk_storage_txids, store_result,
                   log, faults, tampered, entropy>>
    /\ UNCHANGED <<client_vars, gate_vars, function_vars>>

Next ==
    \/ StoreBegin
    \/ StoreBeginRaises
    \/ StoreChunk
    \/ StoreIndex
    \/ Tamper
    \/ Retrieve

Spec == Init /\ [][Next]_vars

(***************************************************************************)
(* The in-flight permits of the RPC client.  Every call, whichever handle  *)
(* of __getattr__ it is made through, enters `async with self._semaphore`  *)
(* of the one semaphore the class holds; the calls are counted by place.   *)
(***************************************************************************)
\* Nothing is under way anywhere and the wallet is empty.
InitIdle ==
    /\ InitClient
    /\ InitGates
    /\ InitFunctions
    /\ InitStoreIdle
    /\ unspent = <<>>

\* A task calls a method of the client and reaches `async with self._semaphore`.
RpcCallArrives ==
    /\ rpc_waiting < MaxRpcWaiting
    /\ rpc_waiting' = rpc_waiting + 1
    /\ UNCHANGED <<rpc_semaphore, rpc_in_flight, proxy, calls, calls_started, requests,
                   failed_attempts>>
    /\ UNCHANGED <<store_vars, gate_vars, function_vars>>

\* A waiting call takes a permit.
RpcCallAcquires ==
    /\ rpc_waiting > 0
    /\ semaphore_free(rpc_semaphore)
    /\ rpc_semaphore' = rpc_semaphore - 1
    /\ rpc_waiting' = rpc_waiting - 1
    /\ rpc_in_flight' = rpc_in_flight + 1
    /\ UNCHANGED <<proxy, calls, calls_started, requests, failed_attempts>>
    /\ UNCHANGED <<store_vars, gate_vars, function_vars>>

\* A call leaves `async with self._semaphore`, by return or by exception.
RpcCallReleases ==
    /\ rpc_in_flight > 0
    /\ rpc_in_flight' = rpc_in_flight - 1
    /\ rpc_semaphore' = rpc_semaphore + 1
    /\ UNCHANGED <<rpc_waiting, proxy, calls, calls_started, requests, failed_attempts>>
    /\ UNCHANGED <<store_vars, gate_vars, function_vars>>

NextSemaphore ==
    \/ RpcCallArrives
    \/ RpcCallAcquires
    \/ RpcCallReleases

SpecSemaphore == InitIdle /\ [][NextSemaphore]_vars

(***************************************************************************)
(* The calls of the RPC client, one step per stretch of __call__ between   *)
(* two awaits.  A caller either makes its call through a new handle of     *)
(* __getattr__, as every call site of the module does, or calls again the  *)
(* handle 0 that its owner kept.  The place of a call is "call" (waiting   *)
(* for a permit), "breaker_sleep", "post" (an attempt is with the node),   *)
(* "backoff", or "idle" once it has returned or raised.  fallback_url is   *)
(* None and use_health_check is 0, as __init__ sets them.                  *)
(***************************************************************************)
\* A call that has ended: what it returned or raised, the handle it was made
\* through, the attempts it made and the responses it got.
Returned(call, responses, result) ==
    [IdleCall EXCEPT !.result = result, !.target = call.target, !.posts = call.posts,
                     !.responses = responses]

\* rpc_connection.method: the caller gets a new handle and calls it.
GetAttr(c) ==
    /\ calls[c].pc = "idle"
    /\ calls_started < MaxCalls
    /\ calls_started' = calls_started + 1
    /\ proxy' = [proxy EXCEPT ![c] = getattr(rpc_connection, "method")]
    /\ calls' = [calls EXCEPT ![c] = [IdleCall EXCEPT !.pc = "call", !.target = c]]
    /\ UNCHANGED <<rpc_semaphore, rpc_waiting, rpc_in_flight, requests, failed_attempts>>
    /\ UNCHANGED <<store_vars, gate_vars, function_vars>>

\* The caller calls the handle that was kept from an earlier attribute access.
CallHandle(c) ==
    /\ calls[c].pc = "idle"
    /\ calls_started < MaxCalls
    /\ calls_started' = calls_started + 1
    /\ calls' = [calls EXCEPT ![c] = [IdleCall EXCEPT !.pc = "call", !.target = 0]]
    /\ UNCHANGED <<rpc_semaphore, rpc_waiting, rpc_in_flight, proxy, requests,
                   failed_attempts>>
    /\ UNCHANGED <<store_vars, gate_vars, function_vars>>

\* __call__ from `self.id_count += 1` to the first client.post: the request is
\* built with the new id and the first attempt is with the node.
Issue(c, h, self, slept) ==
    /\ proxy' = [proxy EXCEPT ![h] = [self EXCEPT !.id_count = @ + 1]]
    /\ requests' = Append(requests, self.id_count + 1)
    /\ calls' = [calls EXCEPT ![c].pc = "post", ![c].id = self.id_count + 1,
                              ![c].i = 0, ![c].posts = 1,
                              ![c].breaker_slept = slept,
                              ![c].breaker_due =
                                  failed_attempts >= circuit_breaker_failure_threshold]

\* __call__ from the permit to the first await: the sleep of an open breaker
\* or the first client.post.
CallBegin(c) ==
    /\ calls[c].pc = "call"
    /\ semaphore_free(rpc_semaphore)
    /\ rpc_semaphore' = rpc_semaphore - 1
    /\ rpc_in_flight' = rpc_in_flight + 1
    /\ LET h == calls[c].target
           self == proxy[h]
       IN  IF self.circuit_breaker_open /\ self.circuit_breaker_timeout > 0
              THEN /\ calls' = [calls EXCEPT ![c].pc = "breaker_sleep"]
                   /\ UNCHANGED <<proxy, requests>>
           ELSE IF self.circuit_breaker_open
              THEN Issue(c, h, [self EXCEPT !.circuit_breaker_failure_count = 0], FALSE)
           ELSE Issue(c, h, self, FALSE)
    /\ UNCHANGED <<rpc_waiting, calls_started, failed_attempts>>
    /\ UNCHANGED <<store_vars, gate_vars, function_vars>>

\* The sleep of the open breaker ends.
BreakerWake(c) ==
    /\ calls[c].pc = "breaker_sleep"
    /\ LET h == calls[c].target
       IN  Issue(c, h, [proxy[h] EXCEPT !.circuit_breaker_timeout = 0], TRUE)
    /\ UNCHANGED <<rpc_semaphore, rpc_waiting, rpc_in_flight, calls_started,
                   failed_attempts>>
    /\ UNCHANGED <<store_vars, gate_vars, function_vars>>

\* client.post returns a response: the loop is left and the call returns the
\* result or raises the rpc-error of the response.
PostResponds(c) ==
    /\ calls[c].pc = "post"
    /\ \E elapsed \in ElapsedTimes, reply \in {"result", "JSONRPCException"} :
        /\ proxy' = [proxy EXCEPT ![calls[c].target] =
                        post_responded(@, SeqSum(calls[c].backoffs) + elapsed)]
        /\ calls' = [calls EXCEPT ![c] = Returned(@, @.responses + 1, reply)]
    /\ failed_attempts' = 0
    /\ rpc_semaphore' = rpc_semaphore + 1
    /\ rpc_in_flight' = rpc_in_flight - 1
    /\ UNCHANGED <<rpc_waiting, calls_started, requests>>
    /\ UNCHANGED <<store_vars, gate_vars, function_vars>>

\* An attempt raises (transport fault or timeout): the next round of the loop
\* sleeps its backoff, or the loop is exhausted and the call returns.
PostFails(c) ==
    /\ calls[c].pc = "post"
    /\ proxy' = [proxy EXCEPT ![calls[c].target] = post_failed(@)]
    /\ failed_attempts' = Min(failed_attempts + 1, circuit_breaker_failure_threshold)
    /\ IF calls[c].i + 1 < max_retries
          THEN /\ \E jitter \in Jitters :
                    calls' = [calls EXCEPT ![c].pc = "backoff", ![c].i = @ + 1,
                                ![c].backoffs = Append(@, sleep_time(calls[c].i + 1, jitter))]
               /\ UNCHANGED <<rpc_semaphore, rpc_in_flight>>
          ELSE /\ calls' = [calls EXCEPT ![c] = Returned(@, @.responses, "None")]
               /\ rpc_semaphore' = rpc_semaphore + 1
               /\ rpc_in_flight' = rpc_in_flight - 1
    /\ UNCHANGED <<rpc_waiting, calls_started, requests>>
    /\ UNCHANGED <<store_vars, gate_vars, function_vars>>

\* The backoff ends and the next attempt is with the node.
BackoffWake(c) ==
    /\ calls[c].pc = "backoff"
    /\ calls' = [calls EXCEPT ![c].pc = "post", ![c].posts = @ + 1,
                              ![c].breaker_slept = FALSE,
                              ![c].breaker_due =
                                  failed_attempts >= circuit_breaker_failure_threshold]
    /\ UNCHANGED <<rpc_semaphore, rpc_waiting, rpc_in_flight, proxy, calls_started,
                   requests, failed_attempts>>
    /\ UNCHANGED <<store_vars, gate_vars, function_vars>>

NextClient ==
    \/ \E c \in Callers : GetAttr(c)
    \/ \E c \in Callers : CallHandle(c)
    \/ \E c \in Callers : CallBegin(c)
    \/ \E c \in Callers : BreakerWake(c)
    \/ \E c \in Callers : PostResponds(c)
    \/ \E c \in Callers : PostFails(c)
    \/ \E c \in Callers : BackoffWake(c)

SpecClient == InitIdle /\ [][NextClient]_vars

(***************************************************************************)
(* The gates of the module.  The chunk and index submissions of the store  *)
(* operations that run in the process are counted by place: waiting for    *)
(* storage_task_semaphore, preparing (inputs, change, signing) and sending *)
(* (in sendrawtransaction).  The retrievals under way are counted.         *)
(***************************************************************************)
\* store_data_chunk or store_chunk_txids is called.
SubmissionArrives ==
    /\ submissions.waiting + submissions.preparing + submissions.sending < MaxSubmissions
    /\ submissions' = [submissions EXCEPT !.waiting = @ + 1]
    /\ UNCHANGED <<storage_task_semaphore, transaction_semaphore, retrieval_task_semaphore,
                   retrievals, submitters, broadcasts>>
    /\ UNCHANGED <<store_vars, client_vars, function_vars>>

\* async with storage_task_semaphore
SubmissionEnters ==
    /\ submissions.waiting > 0
    /\ semaphore_free(storage_task_semaphore)
    /\ storage_task_semaphore' = storage_task_semaphore - 1
    /\ submissions' = [submissions EXCEPT !.waiting = @ - 1, !.preparing = @ + 1]
    /\ UNCHANGED <<transaction_semaphore, retrieval_task_semaphore, retrievals, submitters,
                   broadcasts>>
    /\ UNCHANGED <<store_vars, client_vars, function_vars>>

\* The submission ends before anything is sent: insufficient funds, a signing
\* that failed, an rpc-error.
SubmissionFails ==
    /\ submissions.preparing > 0
    /\ submissions' = [submissions EXCEPT !.preparing = @ - 1]
    /\ storage_task_semaphore' = storage_task_semaphore + 1
    /\ UNCHANGED <<transaction_semaphore, retrieval_task_semaphore, retrievals, submitters,
                   broadcasts>>
    /\ UNCHANGED <<store_vars, client_vars, function_vars>>

\* create_and_send_transaction reaches send_transaction: under
\* transaction_semaphore if use_parallel, else at once.
SubmissionSends ==
    /\ submissions.preparing > 0
    /\ IF use_parallel # 0
          THEN /\ semaphore_free(transaction_semaphore)
               /\ transaction_semaphore' = transaction_semaphore - 1
          ELSE UNCHANGED transaction_semaphore
    /\ submissions' = [submissions EXCEPT !.preparing = @ - 1, !.sending = @ + 1]
    /\ UNCHANGED <<storage_task_semaphore, retrieval_task_semaphore, retrievals, submitters,
                   broadcasts>>
    /\ UNCHANGED <<store_vars, client_vars, function_vars>>

\* sendrawtransaction has returned or raised and the submission ends.
SubmissionReturns ==
    /\ submissions.sending > 0
    /\ IF use_parallel # 0
          THEN transaction_semaphore' = transaction_semaphore + 1
          ELSE UNCHANGED transaction_semaphore
    /\ submissions' = [submissions EXCEPT !.sending = @ - 1]
    /\ storage_task_semaphore' = storage_task_semaphore + 1
    /\ UNCHANGED <<retrieval_task_semaphore, retrievals, submitters, broadcasts>>
    /\ UNCHANGED <<store_vars, client_vars, function_vars>>

\* retrieve_data_from_blockchain is called: it takes no semaphore.
RetrievalBegins ==
    /\ retrievals < MaxRetrievals
    /\ retrievals' = retrievals + 1
    /\ UNCHANGED <<storage_task_semaphore, transaction_semaphore, retrieval_task_semaphore,
                   submissions, submitters, broadcasts>>
    /\ UNCHANGED <<store_vars, client_vars, function_vars>>

\* retrieve_data_from_blockchain returns or raises.
RetrievalEnds ==
    /\ retrievals > 0
    /\ retrievals' = retrievals - 1
    /\ UNCHANGED <<storage_task_semaphore, transaction_semaphore, retrieval_task_semaphore,
                   submissions, submitters, broadcasts>>
    /\ UNCHANGED <<store_vars, client_vars, function_vars>>

NextGates ==
    \/ SubmissionArrives
    \/ SubmissionEnters
    \/ SubmissionFails
    \/ SubmissionSends
    \/ SubmissionReturns
    \/ RetrievalBegins
    \/ RetrievalEnds

SpecGates == InitIdle /\ [][NextGates]_vars

(***************************************************************************)
(* The selection of inputs by store operations that run at the same time   *)
(* against one wallet.  Each store operation submits its chunks one after  *)
(* the other; a submission reads listunspent and selects its inputs, then  *)
(* signs and sends, and the node takes the inputs of a transaction out of  *)
(* listunspent when it accepts it.  The node rejects a transaction one of  *)
(* whose inputs is spent already.                                          *)
(***************************************************************************)
\* estimated_fee of the first chunk of each payload of the model.
EstimatedFees ==
    {Len(chunk_with_index(calculate_chunks(data_with_header(p), max_chunk_size), 0))
        * fee_per_kb : p \in Payloads}

InitSelect ==
    /\ InitClient
    /\ InitGates
    /\ InitFunctions
    /\ InitStoreIdle
    /\ unspent \in {Wallet(n) : n \in 0..MaxUtxos}

\* store_data_chunk up to the inputs: the permit of storage_task_semaphore,
\* listunspent and select_txins for the estimated fee; Exception("Insufficient
\* funds") leaves the submission and the store operation.
SubmitterSelects(s) ==
    /\ submitters[s].pc = "idle"
    /\ submitters[s].rounds < MaxRounds
    /\ semaphore_free(storage_task_semaphore)
    /\ \E estimated_fee \in EstimatedFees :
        LET picked == select_txins(unspent, estimated_fee)
        IN  IF picked.ok
               THEN /\ submitters' = [submitters EXCEPT ![s].pc = "selected",
                                                        ![s].txins = picked.txins]
                    /\ storage_task_semaphore' = storage_task_semaphore - 1
               ELSE /\ submitters' = [submitters EXCEPT ![s].rounds = MaxRounds,
                                                        ![s].result = "raise"]
                    /\ UNCHANGED storage_task_semaphore
    /\ UNCHANGED <<transaction_semaphore, retrieval_task_semaphore, submissions, retrievals,
                   broadcasts>>
    /\ UNCHANGED <<store_vars, client_vars, function_vars>>

\* The transaction is signed and sent, and store_data_chunk returns the txid,
\* or None when the node rejected it.
SubmitterBroadcasts(s) ==
    /\ submitters[s].pc = "selected"
    /\ LET txins == submitters[s].txins
           unspent_now == \A k \in 1..Len(txins) :
                             \E u \in 1..Len(unspent) : unspent[u].txid = txins[k].txid
       IN  /\ broadcasts' = Append(broadcasts, [k \in 1..Len(txins) |-> txins[k].txid])
           /\ unspent' = IF unspent_now THEN Spend(unspent, txins) ELSE unspent
           /\ submitters' = [submitters EXCEPT ![s].pc = "idle", ![s].txins = <<>>,
                                ![s].rounds = @ + 1,
                                ![s].result = IF unspent_now THEN "txid" ELSE "None"]
    /\ storage_task_semaphore' = storage_task_semaphore + 1
    /\ UNCHANGED <<transaction_semaphore, retrieval_task_semaphore, submissions, retrievals>>
    /\ UNCHANGED <<chain, pc, payload, chunks, chunk_storage_txids, store_result, log,
                   faults, tampered, retrieved, entropy>>
    /\ UNCHANGED <<client_vars, function_vars>>

NextSelect ==
    \/ \E s \in Submitters : SubmitterSelects(s)
    \/ \E s \in Submitters : SubmitterBroadcasts(s)

SpecSelect == InitSelect /\ [][NextSelect]_vars

(***************************************************************************)
(* The store path over wallets whose one eligible output is worth the      *)
(* estimated fee of a first chunk, or little more.                         *)
(***************************************************************************)
\* listunspent with one eligible output of the given amount.
WalletOfAmount(amount) == <<[Utxo(1, "mine", TRUE, FALSE, 10) EXCEPT !.amount = amount]>>

\* The amounts: an estimated fee, one unit more, and fee_per_kb units more.
WalletAmounts == {estimated_fee + more : estimated_fee \in EstimatedFees,
                                         more \in {0, 1, fee_per_kb}}

InitFee ==
    /\ InitClient
    /\ InitGates
    /\ InitFunctions
    /\ InitStoreIdle
    /\ unspent \in {WalletOfAmount(amount) : amount \in WalletAmounts}

NextFee ==
    \/ StoreBegin
    \/ StoreChunk
    \/ StoreIndex

SpecFee == InitFee /\ [][NextFee]_vars
(***************************************************************************)
(* The permits of one submission and of the RPC calls it makes.  A chunk   *)
(* or index submission runs inside `async with storage_task_semaphore`;    *)
(* inside it makes its calls one after the other (listunspent, one         *)
(* validateaddress for each output it reviews, getnewaddress,              *)
(* signrawtransaction twice, sendrawtransaction), each inside `async with  *)
(* self._semaphore` of the client.  A call ends by returning the result,   *)
(* by raising the rpc-error of the node, or by returning None when its     *)
(* retries are exhausted; what the submission does next depends on the     *)
(* call and on how it ended.  The end of a call and what the submission    *)
(* does up to its next call or its own end is one step: no await lies      *)
(* between them.                                                           *)
(***************************************************************************)
\* A release that an exception skips: acquire and release without finally.
aexit_without_finally(value, result) == IF result = "raise" THEN value ELSE value + 1

\* Leaving `async with semaphore`: __aexit__ releases the permit whether the
\* body returned or raised.
aexit(value, result) == value + 1

\* A submission that has not been made.
IdleSubmission ==
    [pc |-> "idle", kind |-> "chunk", step |-> "none", result |-> "pending",
     path |-> "none"]

\* The submission goes on to its next call, or leaves with a result by a path.
Continue(step) == [exit |-> FALSE, step |-> step, result |-> "pending", path |-> "none"]
Exit(result, path) == [exit |-> TRUE, step |-> "none", result |-> result, path |-> path]

\* After a call returned a result.
AfterResult(step) ==
    CASE step = "listunspent" ->
            {Continue("validateaddress"), Exit("raise", "insufficient_funds")}
      [] step = "validateaddress" ->
            {Continue("validateaddress"), Continue("getnewaddress"),
             Exit("raise", "insufficient_funds")}
      [] step = "getnewaddress" -> {Continue("signrawtransaction")}
      [] step = "signrawtransaction" ->
            {Continue("signrawtransaction_again"), Exit("None", "signing_failure")}
      [] step = "signrawtransaction_again" ->
            {Continue("sendrawtransaction"), Exit("raise", "signing_failure")}
      [] step = "sendrawtransaction" -> {Exit("txid", "returned")}

\* After a call raised JSONRPCException: codes -25 and -26 of sendrawtransaction
\* make the submission return None, every other error leaves it by exception.
AfterRaise(step) ==
    IF step = "sendrawtransaction"
        THEN {Exit("None", "broadcast_error"), Exit("raise", "broadcast_error")}
    ELSE {Exit("raise", "rpc_error")}

\* After a call returned None, its retries exhausted: the submission fails on
\* the None, except after sendrawtransaction, where it returns it.
AfterNone(step) ==
    IF step = "sendrawtransaction" THEN {Exit("None", "retries_exhausted")}
    ELSE {Exit("raise", "retries_exhausted")}

InitPermits ==
    /\ InitClient
    /\ InitFunctions
    /\ InitStoreIdle
    /\ unspent = <<>>
    /\ storage_task_semaphore = max_storage_tasks_in_parallel
    /\ transaction_semaphore = max_concurrent_requests
    /\ retrieval_task_semaphore = max_retrieval_tasks_in_parallel
    /\ submissions = [waiting |-> 0, preparing |-> 0, sending |-> 0]
    /\ retrievals = 0
    /\ submitters = [s \in Submitters |-> IdleSubmission]
    /\ broadcasts = <<>>

\* store_data_chunk or store_chunk_txids is called and reaches
\* `async with storage_task_semaphore`.
PermitSubmissionStarts(s) ==
    /\ submitters[s].pc = "idle"
    /\ \E kind \in {"chunk", "index"} :
          submitters' = [submitters EXCEPT ![s] =
                            [IdleSubmission EXCEPT !.pc = "waiting", !.kind = kind]]
    /\ UNCHANGED <<storage_task_semaphore, transaction_semaphore, retrieval_task_semaphore,
                   submissions, retrievals, broadcasts>>
    /\ UNCHANGED <<store_vars, client_vars, function_vars>>

\* The submission takes a permit of storage_task_semaphore.
PermitSubmissionEnters(s) ==
    /\ submitters[s].pc = "waiting"
    /\ semaphore_free(storage_task_semaphore)
    /\ storage_task_semaphore' = storage_task_semaphore - 1
    /\ submitters' = [submitters EXCEPT ![s].pc = "inside", ![s].step = "listunspent"]
    /\ UNCHANGED <<transaction_semaphore, retrieval_task_semaphore, submissions,
                   retrievals, broadcasts>>
    /\ UNCHANGED <<store_vars, client_vars, function_vars>>

\* The submission leaves `async with storage_task_semaphore` with the outcome c.
Leaves(s, c) ==
    /\ storage_task_semaphore' = aexit(storage_task_semaphore, c.result)
    /\ submitters' = [submitters EXCEPT ![s].pc = "idle", ![s].step = "none",
                                         ![s].result = c.result, ![s].path = c.path]

\* store_chunk_txids joins the txids before its first call: txid.encode() raises
\* for a txid that is None.
PermitJoinRaises(s) ==
    /\ submitters[s].pc = "inside"
    /\ submitters[s].kind = "index"
    /\ submitters[s].step = "listunspent"
    /\ Leaves(s, Exit("raise", "txid_encode"))
    /\ UNCHANGED <<transaction_semaphore, retrieval_task_semaphore, submissions,
                   retrievals, broadcasts>>
    /\ UNCHANGED <<store_vars, client_vars, function_vars>>

\* The next call of the submission takes a permit of the client's semaphore.
PermitCallEnters(s) ==
    /\ submitters[s].pc = "inside"
    /\ semaphore_free(rpc_semaphore)
    /\ rpc_semaphore' = rpc_semaphore - 1
    /\ rpc_in_flight' = rpc_in_flight + 1
    /\ submitters' = [submitters EXCEPT ![s].pc = "in_call"]
    /\ UNCHANGED <<rpc_waiting, proxy, calls, calls_started, requests, failed_attempts>>
    /\ UNCHANGED <<storage_task_semaphore, transaction_semaphore, retrieval_task_semaphore,
                   submissions, retrievals, broadcasts>>
    /\ UNCHANGED <<store_vars, function_vars>>

\* The call leaves `async with self._semaphore` in the way `ended`, and the
\* submission goes on as one of `outcomes` says.
CallEnds(s, ended, outcomes) ==
    /\ submitters[s].pc = "in_call"
    /\ rpc_semaphore' = aexit(rpc_semaphore, ended)
    /\ rpc_in_flight' = rpc_in_flight - 1
    /\ \E c \in outcomes :
          IF c.exit THEN Leaves(s, c)
          ELSE /\ submitters' = [submitters EXCEPT ![s].pc = "inside", ![s].step = c.step]
               /\ UNCHANGED storage_task_semaphore
    /\ UNCHANGED <<rpc_waiting, proxy, calls, calls_started, requests, failed_attempts>>
    /\ UNCHANGED <<transaction_semaphore, retrieval_task_semaphore, submissions,
                   retrievals, broadcasts>>
    /\ UNCHANGED <<store_vars, function_vars>>

\* __call__ returns response_json['result'].
PermitCallReturns(s) == CallEnds(s, "result", AfterResult(submitters[s].step))

\* __call__ raises JSONRPCException(response_json['error']).
PermitCallRaises(s) == CallEnds(s, "raise", AfterRaise(submitters[s].step))

\* __call__ returns None after max_retries failed attempts.
PermitCallExhausted(s) == CallEnds(s, "None", AfterNone(submitters[s].step))

NextPermits ==
    \/ \E s \in Submitters : PermitSubmissionStarts(s)
    \/ \E s \in Submitters : PermitSubmissionEnters(s)
    \/ \E s \in Submitters : PermitJoinRaises(s)
    \/ \E s \in Submitters : PermitCallEnters(s)
    \/ \E s \in Submitters : PermitCallReturns(s)
    \/ \E s \in Submitters : PermitCallRaises(s)
    \/ \E s \in Submitters : PermitCallExhausted(s)

SpecPermits == InitPermits /\ [][NextPermits]_vars

(***************************************************************************)
(* varint on its own: one call for each argument up to MaxVarint.          *)
(***************************************************************************)
InitVarint ==
    /\ InitClient
    /\ InitGates
    /\ InitStoreIdle
    /\ unspent = <<>>
    /\ varint_n \in 0..MaxVarint
    /\ varint_out = NoVarint
    /\ selection = NoSelection

VarintCall ==
    /\ ~varint_out.called
    /\ varint_out' = varint(varint_n)
    /\ UNCHANGED <<varint_n, selection>>
    /\ UNCHANGED <<store_vars, client_vars, gate_vars>>

NextVarint == VarintCall

SpecVarint == InitVarint /\ [][NextVarint]_vars

(***************************************************************************)
(* select_txins on its own: one run for the estimated fee of a first chunk *)
(* over the short wallets of the store path and over long wallets, which   *)
(* list outputs the flags rule out (coinbase outputs), then spendable      *)
(* outputs at an address validateaddress does not report as the wallet's,  *)
(* then eligible outputs by ascending confirmations, the last of which may *)
(* be the freshest of all.                                                 *)
(***************************************************************************)
LongWallet(skipped, foreign, eligible, amount, fresh_last) ==
    [j \in 1..skipped |-> [Utxo(1000 + j, "mine", TRUE, TRUE, 100 + j)
                              EXCEPT !.amount = amount]]
    \o [j \in 1..foreign |-> [Utxo(2000 + j, "foreign", TRUE, FALSE, 1)
                                 EXCEPT !.amount = amount]]
    \o [k \in 1..eligible |->
            [Utxo(k, "mine", TRUE, FALSE,
                  IF fresh_last /\ k = eligible THEN 0 ELSE 10 + k)
                EXCEPT !.amount = amount]]

SelectorWallets ==
    {Wallet(n) : n \in 0..MaxUtxos}
    \cup {LongWallet(skipped, foreign, eligible, amount, fresh_last) :
            skipped \in 0..MaxSkipped, foreign \in 0..MaxForeign,
            eligible \in (MaxEligible - 2)..MaxEligible,
            amount \in {UtxoAmount, DustAmount}, fresh_last \in BOOLEAN}

InitSelector ==
    /\ InitClient
    /\ InitGates
    /\ InitStoreIdle
    /\ unspent \in SelectorWallets
    /\ varint_n = 0
    /\ varint_out = NoVarint
    /\ selection = NoSelection

\* prepare_txins_and_change calls select_txins(value) with the estimated fee.
SelectTxins ==
    /\ ~selection.called
    /\ \E value \in EstimatedFees : selection' = select_txins_run(unspent, value)
    /\ UNCHANGED <<varint_n, varint_out>>
    /\ UNCHANGED <<store_vars, client_vars, gate_vars>>

NextSelector == SelectTxins

SpecSelector == InitSelector /\ [][NextSelector]_vars

(***************************************************************************)
(* Definitions shared by the properties.                                   *)
(***************************************************************************)
\* The store returned the txid of the index transaction.
StoreSucceeded == pc = "done" /\ store_result.kind = "txid"

\* The frame of the payload of the store.
Frame == data_with_header(payload)

\* ceil(a / b)
CeilDiv(a, b) == (a + b - 1) \div b

\* The entries of the log that are chunk submissions.
ChunkEntries == {e \in 1..Len(log) : log[e].kind = "chunk"}

\* The number of transactions the node accepted from the store.
Broadcasts == Cardinality({e \in 1..Len(log) : log[e].out.accepted})

\* The data retrieve_chunk returns for the record of chunk i (from 0) of a
\* successful store.
FetchedChunk(i) == retrieve_chunk(chain, ChainIndexOf(chain, chunk_storage_txids[i + 1]))

\* The orders in which n records can be listed.
Orders(n) == {f \in [1..n -> 1..n] : \A j, k \in 1..n : f[j] = f[k] => j = k}

\* What the try block of the retrieve path makes of the chunk records of the
\* store fetched in the given order: the combined data, or Null where it raises
\* because a fetched chunk is None.
CombinedInOrder(order) ==
    LET data_chunks == [k \in 1..Len(order) |-> FetchedChunk(order[k] - 1)]
    IN  IF \E k \in 1..Len(order) : data_chunks[k] = Null THEN Null
        ELSE combine_chunks(data_chunks)

(***************************************************************************)
(* C1.  Round trip: after a store in which every call of the node          *)
(* succeeded, and with the chain as the store wrote it, retrieving the     *)
(* txid the store returned yields the payload.                             *)
(***************************************************************************)
C1_RoundTrip ==
    (StoreSucceeded /\ tampered.kind = "none" /\ retrieved.kind # "pending")
        => (retrieved.kind = "data" /\ retrieved.data = payload)

(***************************************************************************)
(* C2.  Hash gating: after a successful store and the change of one byte of*)
(* the body of one chunk record on-chain, retrieving the index txid returns*)
(* None: neither a payload nor an exception.                               *)
(***************************************************************************)
C2_HashGating ==
    (StoreSucceeded /\ tampered.kind = "byte" /\ retrieved.kind # "pending")
        => retrieved.kind = "null"

\* A byte of the second of several chunk records was changed, and the retrieval
\* has returned None.
C2_Witness ==
    /\ StoreSucceeded
    /\ Len(chunks) >= 2
    /\ tampered.kind = "byte"
    /\ tampered.chunk = 1
    /\ tampered.offset >= 2
    /\ retrieved.kind = "null"

(***************************************************************************)
(* C3.  Chunk count: a successful store of a payload whose frame has       *)
(* length L had exactly ceil(L / 3000) + 1 transactions accepted (at least *)
(* 2), every chunk is at most 3000 bytes long, and the chunks in order     *)
(* concatenate to the frame.                                               *)
(***************************************************************************)
C3_ChunkCount ==
    StoreSucceeded =>
        /\ Broadcasts = CeilDiv(Len(Frame), 3000) + 1
        /\ Len(chain) = CeilDiv(Len(Frame), 3000) + 1
        /\ CeilDiv(Len(Frame), 3000) + 1 >= 2
        /\ Len(chunks) = CeilDiv(Len(Frame), 3000)
        /\ \A k \in 1..Len(chunks) : Len(chunks[k]) <= 3000
        /\ Concat(chunks) = Frame

\* A store of a frame of three chunks succeeded.
C3_Witness == StoreSucceeded /\ Len(chunks) = 3 /\ Broadcasts = 4

(***************************************************************************)
(* C4.  Chunk-index coverage: after a successful store of N chunks, the    *)
(* store wrote each index 0..N-1 into exactly one chunk record, and the    *)
(* indices the retrieve path recovers from the N chunk records (the value  *)
(* it sorts by) are exactly 0..N-1, without duplicates.                    *)
(***************************************************************************)
C4_IndexCoverage ==
    (StoreSucceeded /\ tampered.kind = "none") =>
        LET N == Len(chunks)
        IN  /\ \A i \in 0..(N - 1) :
                 Cardinality({e \in ChunkEntries :
                     log[e].out.script
                         = CarrierScript(SubSeq(log[e].out.script, 3, FakePubkeyLen + 2),
                                         to_bytes2_big(i) \o chunks[i + 1])}) = 1
            /\ \A i \in 0..(N - 1) : FetchedChunk(i) # Null
            /\ {ChunkSortKey(FetchedChunk(i)) : i \in 0..(N - 1)} = 0..(N - 1)
            /\ \A i, j \in 0..(N - 1) :
                 ChunkSortKey(FetchedChunk(i)) = ChunkSortKey(FetchedChunk(j)) => i = j

(***************************************************************************)
(* C5.  Store ordering: the chunks are submitted one after the other in    *)
(* ascending index order, their txids are collected in that order, the     *)
(* node holds the accepted transactions in that order, the index           *)
(* transaction is submitted only once the txid of every chunk is known,    *)
(* and its body is those txids concatenated in chunk order.                *)
(***************************************************************************)
C5_StoreOrdering ==
    /\ \A e \in 1..Len(log) :
          IF e <= Len(chunks) THEN log[e].kind = "chunk" /\ log[e].index = e - 1
          ELSE log[e].kind = "index" /\ e = Len(chunks) + 1
    /\ \A j \in 1..Len(chunk_storage_txids) : chunk_storage_txids[j] = log[j].out.txid
    /\ \A e, f \in 1..Len(log) :
          (e < f /\ log[e].out.accepted /\ log[f].out.accepted)
              => ChainIndexOf(chain, log[e].out.txid) < ChainIndexOf(chain, log[f].out.txid)
    /\ \A e \in 1..Len(log) :
          (log[e].kind = "index" /\ log[e].out.script # <<>>) =>
              /\ Len(chunk_storage_txids) = Len(chunks)
              /\ \A j \in 1..Len(chunks) :
                    /\ log[j].out.accepted
                    /\ chunk_storage_txids[j] = TxidOf(ChainIndexOf(chain, log[j].out.txid))
              /\ log[e].out.script
                    = CarrierScript(SubSeq(log[e].out.script, 3, FakePubkeyLen + 2),
                                    Concat([j \in 1..Len(chunks) |-> log[j].out.txid]))

\* The index transaction of a store of three chunks was accepted.
C5_Witness ==
    /\ Len(chunks) = 3
    /\ Len(log) = 4
    /\ log[4].kind = "index"
    /\ log[4].out.accepted

(***************************************************************************)
(* C6.  Abort on chunk failure: once the submission of a chunk has yielded *)
(* no txid, the store sends no further transaction to the node, neither a  *)
(* later chunk nor the index transaction.                                  *)
(***************************************************************************)
C6_AbortOnChunkFailure ==
    \A e, f \in 1..Len(log) :
        (e < f /\ log[e].kind = "chunk" /\ log[e].out.kind = "none") => ~log[f].out.sent

(***************************************************************************)
(* C7.  Insufficient funds: when the eligible outputs of the wallet total  *)
(* less than the estimated fee of the first chunk, the store returns None  *)
(* (it does not raise) and no transaction is broadcast.                    *)
(***************************************************************************)
C7_InsufficientFunds ==
    (Len(log) >= 1 /\ log[1].out.exc = "InsufficientFunds") =>
        /\ pc = "done"
        /\ store_result.kind = "null"
        /\ chain = <<>>
        /\ \A e \in 1..Len(log) : ~log[e].out.sent

(***************************************************************************)
(* C8.  Broadcast error policy: when sendrawtransaction failed with code   *)
(* -25 or -26 for a transaction of the store, chunk or index, the store    *)
(* returns None without raising; when it failed with another code, the     *)
(* rpc-error reaches the caller of the store.                              *)
(***************************************************************************)
C8_BroadcastErrorPolicy ==
    pc = "done" =>
        \A e \in 1..Len(log) :
            log[e].out.fault.kind = "send_error" =>
                IF log[e].out.fault.code \in {-25, -26}
                    THEN store_result.kind = "null"
                ELSE store_result.kind = "raise" /\ store_result.exc = "JSONRPCException"

(***************************************************************************)
(* C9.  Script sentinel: the script of every carrier output the store      *)
(* builds, chunk record or index record, starts with 0x51 0x21 and ends    *)
(* with 0x51 0xAE.                                                         *)
(***************************************************************************)
C9_ScriptSentinel ==
    \A e \in 1..Len(log) :
        LET script == log[e].out.script
        IN  script # <<>> =>
                /\ script[1] = 81 /\ script[2] = 33
                /\ script[Len(script) - 1] = 81 /\ script[Len(script)] = 174

(***************************************************************************)
(* C10.  Order independence: for the chunk records of a stored payload,    *)
(* what the retrieve path reassembles is the same for every order in which *)
(* the records are fetched, the order the store listed them in included.   *)
(***************************************************************************)
C10_OrderIndependent ==
    (StoreSucceeded /\ tampered.kind = "none") =>
        \A order \in Orders(Len(chunks)) :
            CombinedInOrder(order) = CombinedInOrder([k \in 1..Len(chunks) |-> k])

(***************************************************************************)
(* C11.  Global RPC bound: at most 1000 calls of the client hold a permit  *)
(* at any time, whichever handle they were made through; the permits held  *)
(* and the permits free always add up to 1000, so a call that arrives when *)
(* 1000 are held waits.                                                    *)
(***************************************************************************)
C11_GlobalRpcBound ==
    /\ rpc_in_flight <= 1000
    /\ rpc_in_flight + rpc_semaphore = 1000
    /\ rpc_semaphore >= 0

\* 1000 calls hold a permit and further calls wait.
C11_Witness == rpc_in_flight = 1000 /\ rpc_waiting = MaxRpcWaiting

(***************************************************************************)
(* C12.  Bounded retry: a call makes at most 3 attempts, makes no attempt  *)
(* once an attempt has got a response, and has slept a backoff of at most  *)
(* 120 seconds before every attempt but the first.                         *)
(***************************************************************************)
C12_BoundedRetry ==
    \A c \in Callers :
        /\ calls[c].posts <= 3
        /\ calls[c].responses <= 1
        /\ calls[c].pc \in {"post", "backoff"} => calls[c].responses = 0
        /\ calls[c].pc = "post" => Len(calls[c].backoffs) = calls[c].posts - 1
        /\ \A k \in 1..Len(calls[c].backoffs) :
              calls[c].backoffs[k] > 0 /\ calls[c].backoffs[k] <= 120 * Second

\* The third attempt of a call is with the node, after a backoff that the cap
\* cut to 120 seconds.
C12_Witness ==
    \E c \in Callers :
        /\ calls[c].pc = "post"
        /\ calls[c].posts = 3
        /\ calls[c].backoffs[2] = 120 * Second

(***************************************************************************)
(* C13.  Exhausted retries surface as an error: a call whose attempts all  *)
(* failed ends by raising to its caller, not by returning a value; and a   *)
(* call that got no response ends only after its last attempt.             *)
(***************************************************************************)
C13_ExhaustedRetriesRaise ==
    \A c \in Callers :
        (calls[c].pc = "idle" /\ calls[c].result # "pending" /\ calls[c].responses = 0)
            => /\ calls[c].posts = 3
               /\ calls[c].result \notin {"None", "result"}

(***************************************************************************)
(* C14.  Circuit breaker: once 5 attempts in a row made through the client *)
(* have failed the breaker is open, and the next attempt, be it a retry of *)
(* the same call or the first attempt of a later call, comes after a sleep *)
(* of the breaker; after a response the count of the handle that got it is *)
(* 0 and its breaker closed.                                               *)
(***************************************************************************)
C14_CircuitBreaker ==
    /\ failed_attempts >= 5 => \E h \in DOMAIN proxy : proxy[h].circuit_breaker_open
    /\ \A c \in Callers :
          (calls[c].pc = "post" /\ calls[c].breaker_due) => calls[c].breaker_slept
    /\ \A c \in Callers :
          (calls[c].pc = "idle" /\ calls[c].responses = 1) =>
              /\ proxy[calls[c].target].circuit_breaker_failure_count = 0
              /\ ~proxy[calls[c].target].circuit_breaker_open

(***************************************************************************)
(* C15.  Breaker timeout range: the circuit_breaker_timeout of every       *)
(* object of the client lies in [60, 300] seconds in every state.          *)
(***************************************************************************)
C15_BreakerTimeoutRange ==
    \A h \in DOMAIN proxy :
        /\ proxy[h].circuit_breaker_timeout >= 60 * Second
        /\ proxy[h].circuit_breaker_timeout <= 300 * Second

(***************************************************************************)
(* C16.  Request ids: the ids of the requests issued through the client    *)
(* increase strictly in issue order, and two calls that are under way at   *)
(* the same time carry different ids.                                      *)
(***************************************************************************)
C16_RequestIds ==
    /\ \A j, k \in 1..Len(requests) : j < k => requests[j] < requests[k]
    /\ \A c, d \in Callers :
          (c # d /\ calls[c].pc \in {"post", "backoff"} /\ calls[d].pc \in {"post", "backoff"})
              => calls[c].id # calls[d].id

(***************************************************************************)
(* C17.  Broadcast gate: at most 5 submissions are in sendrawtransaction   *)
(* at the same time, and a permit of the broadcast gate is held only by a  *)
(* submission that is in sendrawtransaction.                               *)
(***************************************************************************)
C17_BroadcastGate ==
    /\ submissions.sending <= 5
    /\ 5 - transaction_semaphore <= submissions.sending

(***************************************************************************)
(* C18.  Retrieval gate: at most 20 retrievals are under way at the same   *)
(* time.                                                                   *)
(***************************************************************************)
C18_RetrievalGate == retrievals <= 20

(***************************************************************************)
(* C19.  UTXO selection is serialized: while one submission is between the *)
(* selection of its inputs and the end of its broadcast no other           *)
(* submission has selected inputs, and no two transactions sent to the     *)
(* node spend the same output.                                             *)
(***************************************************************************)
C19_SelectionSerialized ==
    /\ Cardinality({s \in Submitters : submitters[s].pc = "selected"}) <= 1
    /\ \A j, k \in 1..Len(broadcasts) :
          j < k => \A a \in 1..Len(broadcasts[j]), b \in 1..Len(broadcasts[k]) :
                      broadcasts[j][a] # broadcasts[k][b]

(***************************************************************************)
(* C20.  Non-negative change: for every transaction the store sends to the *)
(* node whose selected total covers the estimated fee, the value of the    *)
(* change output, the selected total less the estimated fee less the fee   *)
(* of the signed size, is at least 0.                                      *)
(***************************************************************************)
C20_NonNegativeChange ==
    \A e \in 1..Len(log) :
        (log[e].out.sent /\ log[e].out.total_amount >= log[e].out.estimated_fee) =>
            /\ log[e].out.change
                 = log[e].out.total_amount - log[e].out.estimated_fee - log[e].out.fee
            /\ log[e].out.change >= 0

(***************************************************************************)
(* C21.  Fee balance: for every transaction the store sends to the node,   *)
(* the sum of the input amounts equals the sum of the output amounts (the  *)
(* data output, worth 0, and the change) plus the fee recomputed from the  *)
(* signed size; the estimate of before the signing is not paid.            *)
(***************************************************************************)
C21_FeeBalance ==
    \A e \in 1..Len(log) :
        log[e].out.sent =>
            /\ log[e].out.fee
                 = calculate_transaction_fee(
                       signed_tx_size(log[e].out.txins,
                                      <<log[e].out.script, log[e].out.change_script>>))
            /\ SumAmounts(log[e].out.txins) = 0 + log[e].out.change + log[e].out.fee

(***************************************************************************)
(* C22.  Varint law: for every n from 0 to 0xFFFF, varint(n) is not        *)
(* rejected and returns the byte n when n < 0xFD, and 0xFD followed by the *)
(* two little-endian bytes of n otherwise, which decodes back to n.        *)
(***************************************************************************)
\* The value a varint of one or three bytes stands for, -1 for other bytes.
decode_varint(b) ==
    IF Len(b) = 1 /\ b[1] < 253 THEN b[1]
    ELSE IF Len(b) = 3 /\ b[1] = 253 THEN b[2] + 256 * b[3]
    ELSE -1

C22_VarintLaw ==
    (varint_out.called /\ varint_n <= 65535) =>
        /\ varint_out.exc = NoExc
        /\ varint_out.bytes = IF varint_n < 253 THEN <<varint_n>>
                              ELSE <<253, varint_n % 256, varint_n \div 256>>
        /\ decode_varint(varint_out.bytes) = varint_n

(***************************************************************************)
(* C23.  UTXO selector result: a run of select_txins for the value v fails *)
(* with insufficient funds exactly when the eligible outputs of the list   *)
(* sum to less than v; otherwise every selected output is eligible, the    *)
(* selected outputs are the shortest prefix of the eligible ones by        *)
(* ascending confirmations that sums to at least v, and the total is the   *)
(* sum of their amounts.                                                   *)
(***************************************************************************)
\* Spendable, not generated, not at the burn address and owned by the wallet.
Eligible(tx) ==
    tx.spendable /\ ~tx.generated /\ tx.address # burn_address /\ ismine(tx.address)

C24_ReviewLimit ==
    selection.called =>
        /\ selection.inspected <= number_of_utxos_to_review
        /\ selection.validateaddress_calls <= number_of_utxos_to_review

(***************************************************************************)
(* C25.  Sign gating: a transaction either of whose signings reported      *)
(* errors or did not complete is not sent to the node, and the store in    *)
(* which that happened ends returning None.                                *)
(***************************************************************************)
\* The answers of signrawtransaction that are not a complete signature.
SigningFaults == {"sign_errors", "sign_incomplete", "resign_incomplete"}

C25_SignGating ==
    /\ \A e \in 1..Len(log) :
          log[e].out.fault.kind \in SigningFaults => ~log[e].out.sent
    /\ (pc = "done" /\ \E e \in 1..Len(log) : log[e].out.fault.kind \in SigningFaults)
          => store_result.kind = "null"

(***************************************************************************)
(* C26.  Permits are never leaked: the permits of the client's semaphore   *)
(* that are out are exactly those of the calls under way, the permits of   *)
(* storage_task_semaphore that are out are exactly those of the            *)
(* submissions under way, and so whenever no call and no submission is     *)
(* under way all 1000 and all 20 are available, whichever way the calls    *)
(* and the submissions ended.                                              *)
(***************************************************************************)
CallsUnderWay == {s \in Submitters : submitters[s].pc = "in_call"}
SubmissionsUnderWay == {s \in Submitters : submitters[s].pc \in {"inside", "in_call"}}

C26_PermitsNeverLeaked ==
    /\ rpc_semaphore + Cardinality(CallsUnderWay)
         = AsyncAuthServiceProxy_max_concurrent_requests
    /\ storage_task_semaphore + Cardinality(SubmissionsUnderWay)
         = max_storage_tasks_in_parallel
    /\ (CallsUnderWay = {} /\ SubmissionsUnderWay = {}) =>
          /\ rpc_semaphore = 1000
          /\ storage_task_semaphore = 20

\* Nothing is under way after one submission left by an exception and another
\* returned None.
C26_Witness ==
    /\ CallsUnderWay = {}
    /\ SubmissionsUnderWay = {}
    /\ \E s \in Submitters : submitters[s].result = "raise"
    /\ \E s \in Submitters : submitters[s].result = "None"

=============================================================================
